---- MODULE Spec2Model ----
(***************************************************************************)
(* Leave lifecycle and PTO/LWOP balance engine of the employee leave       *)
(* tracker: the request handlers of server/routes.ts over the tables of    *)
(* shared/schema.ts, through the storage layer of server/storage.ts.       *)
(* In Spec, SpecAuth, SpecOrdered, SpecMulti, SpecDates, SpecRegister,     *)
(* SpecAssign, SpecLwop and SpecNoBalance each handler runs to completion  *)
(* as one step (one request at a time); in SpecCrash, SpecRace and         *)
(* SpecResolve the approve (and reject) handler takes one step per await.  *)
(*                                                                         *)
(* Spec          : the ledger.  One employee files requests over every     *)
(*                 pair of dates, HR approves or rejects them.             *)
(* SpecOrdered   : the ledger with endDate >= startDate.                   *)
(* SpecAuth      : the authorization.  Requests of two departments, every  *)
(*                 role calls approve and reject, the admin assigns        *)
(*                 approvers.                                              *)
(* SpecMulti     : several approver rows per department, of any role.      *)
(* SpecDates     : dates with a time of day, a totalDays in the body.      *)
(* SpecCrash     : one approve call at a time that can stop after any      *)
(*                 await.                                                  *)
(* SpecRace      : concurrent approve calls.                               *)
(* SpecResolve   : an approve call concurrent with a reject call.          *)
(* SpecRegister  : registration of new users.                              *)
(* SpecAssign    : approvers and roles reassigned while requests are       *)
(*                 pending.                                                *)
(* SpecLwop      : three requests of one employee, LWOP-flagged or not.    *)
(* SpecNoBalance : a requester without a balance row.                      *)
(***************************************************************************)
EXTENDS Integers, Sequences, FiniteSets, TLC

(* ------------------------------ bounds --------------------------------- *)
\* number of leave requests that can be filed under Spec
MaxRequests == 2
\* number of leave requests that can be filed under SpecAuth
MaxAuthRequests == 1
\* dates range over the days 0..MaxDate
MaxDate == 5
\* number of rows the audit log can hold (one per successful file/approve/reject)
MaxLogs == 4
\* number of approve calls that can be in flight at the same time
MaxCalls == 2
\* number of users that can register
MaxRegistered == 2
\* requests filed, and audit rows written, in the specification of the LWOP split
MaxLwopRequests == 3
MaxLwopLogs == 6

(* --------------------------- seeded users ------------------------------ *)
\* the users table: every role, two managers; "top" has no pto_credits row
Users == {"emp", "mgr", "mgr2", "hr", "adm", "top"}

\* the role each seeded user starts with
SeededRoles ==
  [u \in Users |->
     CASE u = "emp" -> "employee"
       [] u \in {"mgr", "mgr2"} -> "manager"
       [] u = "hr"  -> "hr"
       [] u = "adm" -> "admin"
       [] u = "top" -> "top_management"]

Departments == {"sales", "accounting"}

Null == "null"
Undefined == "undefined"

\* request bodies: remarks absent, empty or non-empty
RemarksIn == {Undefined, "", "ok"}

\* 1000 * 60 * 60 * 24 milliseconds, counted in units of twelve hours
Day == 2

\* new Date("yyyy-MM-dd").getTime(): midnight of the day, as the client sends it
Dates == {d * Day : d \in 0..MaxDate}

DefaultTotalCredits == 5

\* reason: z.string().min(10); a reason is modelled by its length
MinReasonLength == 10

VARIABLES ptoCredits, leaveRequests, approvalLogs, departmentApprovers, last,
          calls, users, userRole

vars == <<ptoCredits, leaveRequests, approvalLogs, departmentApprovers, last,
          calls, users, userRole>>
db == <<ptoCredits, leaveRequests, approvalLogs, departmentApprovers, users, userRole>>

(* ------------------------------ storage -------------------------------- *)
\* a value that may be undefined: <<>> or <<value>>
None == <<>>
Some(x) == <<x>>

\* gen_random_uuid(): the id of the n-th registered user
NewUserIds == <<"new1", "new2", "new3", "new4">>

\* getUserByEmail: the registered user with that email, or undefined
getUserByEmail(email) ==
  IF \E i \in DOMAIN users : users[i].email = email
  THEN Some(CHOOSE i \in DOMAIN users : users[i].email = email) ELSE None

\* getUserByEmployeeId: the registered user with that employee ID, or undefined
getUserByEmployeeId(employeeId) ==
  IF \E i \in DOMAIN users : users[i].employeeId = employeeId
  THEN Some(CHOOSE i \in DOMAIN users : users[i].employeeId = employeeId) ELSE None

\* createUser: INSERT into users with a fresh id and the default role
createUser(email, employeeId) ==
  Append(users, [id |-> NewUserIds[Len(users) + 1], email |-> email,
                 employeeId |-> employeeId, role |-> "employee"])

\* createPtoCredits: INSERT into pto_credits (user_id is unique)
createPtoCredits(userId, totalCredits, usedCredits, lwopDays) ==
  [u \in DOMAIN ptoCredits \cup {userId} |->
     IF u = userId
     THEN [totalCredits |-> totalCredits, usedCredits |-> usedCredits,
           lwopDays |-> lwopDays]
     ELSE ptoCredits[u]]

\* getPtoCredits: the row of the user, or undefined
getPtoCredits(userId) ==
  IF userId \in DOMAIN ptoCredits THEN Some(ptoCredits[userId]) ELSE None

\* variant: the UPDATE has no WHERE clause
updatePtoCredits_NoWhere(userId, usedCredits, lwopDays) ==
  [u \in DOMAIN ptoCredits |->
     [ptoCredits[u] EXCEPT !.usedCredits = usedCredits, !.lwopDays = lwopDays]]

\* updatePtoCredits: UPDATE ... WHERE user_id = userId (no row: no effect)
updatePtoCredits(userId, usedCredits, lwopDays) ==
  [u \in DOMAIN ptoCredits |->
     IF u = userId
     THEN [ptoCredits[u] EXCEPT !.usedCredits = usedCredits, !.lwopDays = lwopDays]
     ELSE ptoCredits[u]]

\* createLeaveRequest: INSERT with the column defaults of leave_requests
createLeaveRequest(userId, department, totalDays, isLwop, approverId) ==
  Append(leaveRequests,
         [userId |-> userId, department |-> department, totalDays |-> totalDays,
          isLwop |-> isLwop, status |-> "pending",
          approverId |-> IF approverId = Undefined THEN Null ELSE approverId,
          approverRemarks |-> Null])

\* variant: the status column is left as it was
updateLeaveRequestStatus_KeepsStatus(id, status, approverId, remarks) ==
  [leaveRequests EXCEPT
     ![id] = [@ EXCEPT !.approverId = approverId,
                       !.approverRemarks = IF remarks = Undefined THEN @ ELSE remarks]]

\* updateLeaveRequestStatus: UPDATE ... WHERE id = id, whatever the current
\* status; an undefined remarks leaves the column as it is
updateLeaveRequestStatus(id, status, approverId, remarks) ==
  [leaveRequests EXCEPT
     ![id] = [@ EXCEPT !.status = status, !.approverId = approverId,
                       !.approverRemarks = IF remarks = Undefined THEN @ ELSE remarks]]

\* variant: one row per request, the row of the request is overwritten
createApprovalLog_Upsert(log) ==
  IF \E k \in DOMAIN approvalLogs : approvalLogs[k].leaveRequestId = log.leaveRequestId
  THEN [k \in DOMAIN approvalLogs |->
          IF approvalLogs[k].leaveRequestId = log.leaveRequestId
          THEN log ELSE approvalLogs[k]]
  ELSE Append(approvalLogs, log)

\* createApprovalLog: INSERT into approval_logs
createApprovalLog(log) == Append(approvalLogs, log)

\* getDepartmentApprover: the first row of a SELECT without ORDER BY (any row
\* of the department), undefined when there is none or its user is missing;
\* the call returns one element of this set
getDepartmentApprover(department) ==
  LET rows == {a \in departmentApprovers : a.department = department}
  IN IF rows = {} THEN {None}
     ELSE {IF a.approverUserId \in Users THEN Some(a) ELSE None : a \in rows}

\* updateUserRole: set the role of the user's row
updateUserRole(userId, role) == [userRole EXCEPT ![userId] = role]

\* variant: the existing rows of the department are kept and a row is added
setDepartmentApprover_KeepsOld(department, approverUserId) ==
  departmentApprovers \cup
    {[department |-> department, approverUserId |-> approverUserId]}

\* setDepartmentApprover: update every row of the department, or insert one
setDepartmentApprover(department, approverUserId) ==
  LET existing == {a \in departmentApprovers : a.department = department}
  IN IF existing # {}
     THEN {IF a.department = department
           THEN [a EXCEPT !.approverUserId = approverUserId] ELSE a
           : a \in departmentApprovers}
     ELSE departmentApprovers \cup
            {[department |-> department, approverUserId |-> approverUserId]}

\* getAllDepartmentApprovers: every row whose user exists
getAllDepartmentApprovers == {a \in departmentApprovers : a.approverUserId \in Users}

\* addDepartmentApprover: insert the pair unless that very pair is there
addDepartmentApprover(department, approverUserId) ==
  departmentApprovers \cup
    {[department |-> department, approverUserId |-> approverUserId]}

\* getPendingLeaveRequests: the ids of the pending requests, of one department
\* or (department undefined) of all
getPendingLeaveRequests(department) ==
  {id \in DOMAIN leaveRequests :
     /\ leaveRequests[id].status = "pending"
     /\ department # Undefined => leaveRequests[id].department = department}

(* ------------------------------ helpers -------------------------------- *)
\* variant: only a missing remarks field counts, an empty string passes
Falsy_UndefinedOnly(remarks) == remarks = Undefined

\* JavaScript falsiness of the remarks field
Falsy(remarks) == remarks \in {Undefined, ""}

Min(a, b) == IF a < b THEN a ELSE b

\* Math.ceil(a / b) for b > 0
Ceil(a, b) == -((-a) \div b)

\* variant: the difference is rounded down
TotalDays_Floor(startDate, endDate) == ((endDate - startDate) \div Day) + 1

\* Math.ceil((endDate.getTime() - startDate.getTime()) / one day) + 1
TotalDays(startDate, endDate) == Ceil(endDate - startDate, Day) + 1

\* variant: the allotment is taken for the remaining credits
FilingRemaining_IgnoresUsed(userId) ==
  IF userId \in DOMAIN ptoCredits THEN ptoCredits[userId].totalCredits
  ELSE DefaultTotalCredits

\* remaining credits as the filing handler reads them (defaults when no row)
FilingRemaining(userId) ==
  LET c == getPtoCredits(userId)
  IN IF c = None THEN DefaultTotalCredits - 0
     ELSE c[1].totalCredits - c[1].usedCredits

isHrOrAdmin(actor) == userRole[actor] \in {"hr", "admin"}

\* variant: only a manager can be a designated approver
isDesignatedApprover_ManagerOnly(actor, row) ==
  row # None /\ row[1].approverUserId = actor /\ userRole[actor] = "manager"

\* a row the authorization check may have read names the actor
isDesignatedApprover(actor, row) ==
  row # None /\ row[1].approverUserId = actor

\* variant: any manager passes the authorization check
ApproveGuard_ManagerAny(actor, id, remarks, row) ==
  IF id \notin DOMAIN leaveRequests THEN "NotFound"
  ELSE IF ~isHrOrAdmin(actor) /\ userRole[actor] # "manager"
          /\ ~isDesignatedApprover(actor, row) THEN "Forbidden"
  ELSE IF leaveRequests[id].status # "pending" THEN "InvalidState"
  ELSE IF leaveRequests[id].isLwop /\ Falsy(remarks) THEN "ValidationError"
  ELSE "ok"

\* variant: the status of the request is not checked
ApproveGuard_NoStatusCheck(actor, id, remarks, row) ==
  IF id \notin DOMAIN leaveRequests THEN "NotFound"
  ELSE IF ~isHrOrAdmin(actor) /\ ~isDesignatedApprover(actor, row) THEN "Forbidden"
  ELSE IF leaveRequests[id].isLwop /\ Falsy(remarks) THEN "ValidationError"
  ELSE "ok"

\* guards of PATCH /api/leave-requests/:id/approve, in the handler's order
ApproveGuard(actor, id, remarks, row) ==
  IF id \notin DOMAIN leaveRequests THEN "NotFound"
  ELSE IF ~isHrOrAdmin(actor) /\ ~isDesignatedApprover(actor, row) THEN "Forbidden"
  ELSE IF leaveRequests[id].status # "pending" THEN "InvalidState"
  ELSE IF leaveRequests[id].isLwop /\ Falsy(remarks) THEN "ValidationError"
  ELSE "ok"

\* variant: the status of the request is not checked
RejectGuard_NoStatusCheck(actor, id, row) ==
  IF id \notin DOMAIN leaveRequests THEN "NotFound"
  ELSE IF ~isHrOrAdmin(actor) /\ ~isDesignatedApprover(actor, row) THEN "Forbidden"
  ELSE "ok"

\* guards of PATCH /api/leave-requests/:id/reject, in the handler's order
RejectGuard(actor, id, row) ==
  IF id \notin DOMAIN leaveRequests THEN "NotFound"
  ELSE IF ~isHrOrAdmin(actor) /\ ~isDesignatedApprover(actor, row) THEN "Forbidden"
  ELSE IF leaveRequests[id].status # "pending" THEN "InvalidState"
  ELSE "ok"

\* variant: the whole request is charged to PTO, flagged or not
PtoUsed_NoMin(credits, request) ==
  IF credits = None THEN 0 ELSE request.totalDays

\* variant: the deduction is clamped to the remaining credits, flagged or not
PtoUsed_Clamped(credits, request) ==
  IF credits = None THEN 0
  ELSE Min(credits[1].totalCredits - credits[1].usedCredits, request.totalDays)

\* variant: a requester with no balance row is charged like one with a row
PtoUsed_NoRowCharged(credits, request) ==
  IF credits # None /\ request.isLwop
  THEN Min(credits[1].totalCredits - credits[1].usedCredits, request.totalDays)
  ELSE request.totalDays

\* ptoUsed of the approve handler
PtoUsed(credits, request) ==
  IF credits = None THEN 0
  ELSE IF request.isLwop
       THEN Min(credits[1].totalCredits - credits[1].usedCredits, request.totalDays)
       ELSE request.totalDays

\* lwopUsed of the approve handler
LwopUsed(credits, request) ==
  IF credits = None THEN 0
  ELSE IF request.isLwop
       THEN request.totalDays - PtoUsed(credits, request)
       ELSE 0

\* variant: the audit row records the request's length as the deduction
ApprovalLogEntry_TotalDays(id, actor, request, remarks, ptoUsed, lwopUsed) ==
  [leaveRequestId |-> id, actionBy |-> actor,
   action |-> IF request.isLwop
              THEN <<"Approved LWOP request", ptoUsed, lwopUsed>>
              ELSE <<"Approved leave request", ptoUsed>>,
   previousStatus |-> "pending", newStatus |-> "approved",
   remarks |-> IF remarks = Undefined THEN Null ELSE remarks,
   ptoDeducted |-> request.totalDays, isLwop |-> request.isLwop]

\* the audit row the approve handler writes
ApprovalLogEntry(id, actor, request, remarks, ptoUsed, lwopUsed) ==
  [leaveRequestId |-> id, actionBy |-> actor,
   action |-> IF request.isLwop
              THEN <<"Approved LWOP request", ptoUsed, lwopUsed>>
              ELSE <<"Approved leave request", ptoUsed>>,
   previousStatus |-> "pending", newStatus |-> "approved",
   remarks |-> IF remarks = Undefined THEN Null ELSE remarks,
   ptoDeducted |-> ptoUsed, isLwop |-> request.isLwop]

(* ------------------------------- Init ---------------------------------- *)
\* the in-flight approve calls: one slot per concurrent HTTP request
Calls == 1..MaxCalls

\* a slot with no call in it
Idle == [pc |-> "idle"]

\* a slot whose call has stopped; it is not used again, which bounds the
\* number of stopped calls by the number of slots
Failed == [pc |-> "failed"]

Init ==
  /\ ptoCredits = [u \in Users \ {"top"} |->
                     [totalCredits |-> DefaultTotalCredits, usedCredits |-> 0, lwopDays |-> 0]]
  /\ leaveRequests = <<>>
  /\ approvalLogs = <<>>
  /\ departmentApprovers = {}
  /\ last = [op |-> "none", id |-> 0, actor |-> Null, remarks |-> Undefined,
             result |-> "none", body |-> None]
  /\ calls = [c \in Calls |-> Idle]
  /\ users = <<>>
  /\ userRole = SeededRoles

(* ------------------------------ handlers ------------------------------- *)
\* variant: only the email is checked
RegisterGuard_EmailOnly(email, employeeId) ==
  IF getUserByEmail(email) # None THEN "EmailTaken" ELSE "ok"

\* the two 400 responses of the registration handler
RegisterGuard(email, employeeId) ==
  IF getUserByEmail(email) # None THEN "EmailTaken"
  ELSE IF getUserByEmployeeId(employeeId) # None THEN "EmployeeIdTaken"
  ELSE "ok"

\* POST /api/auth/register
Register(emails, employeeIds) ==
  \E email \in emails, employeeId \in employeeIds :
    LET result == RegisterGuard(email, employeeId)
        body == [email |-> email, employeeId |-> employeeId]
    IN IF result # "ok"
       THEN /\ last' = [op |-> "register", id |-> 0, actor |-> Null,
                        remarks |-> Undefined, result |-> result, body |-> body]
            /\ UNCHANGED <<db, calls>>
       ELSE /\ Len(users) < MaxRegistered
            /\ users' = createUser(email, employeeId)
            /\ ptoCredits' = createPtoCredits(NewUserIds[Len(users) + 1], 5, 0, 0)
            /\ last' = [op |-> "register", id |-> 0,
                        actor |-> NewUserIds[Len(users) + 1],
                        remarks |-> Undefined, result |-> "ok", body |-> body]
            /\ UNCHANGED <<leaveRequests, approvalLogs, departmentApprovers, calls,
                           userRole>>

\* variant: the schema does not omit approverId
ParseLeaveRequest_KeepsApprover(body) == body

\* insertLeaveRequestSchema.parse(req.body): the keys the schema omits
\* (approverId among them) are stripped from the body
ParseLeaveRequest(body) == [body EXCEPT !.approverId = Undefined]

\* insertLeaveRequestSchema.parse(req.body): the only constraint on the body's
\* values is the length of the reason (the dates are unconstrained strings)
FileGuard(data) ==
  IF data.reason < MinReasonLength THEN "ValidationError" ELSE "ok"

\* { ...data, userId, totalDays, isLwop }: the computed values override the body's
LeaveRequestValues(data, userId, totalDays, isLwop) ==
  [userId |-> userId, department |-> data.department,
   totalDays |-> totalDays, isLwop |-> isLwop, approverId |-> data.approverId]

\* POST /api/leave-requests
FileLeaveRequest(requesters, departments, startDates, endDates, reasons, totalDaysIn, approverIds, maxRequests, maxLogs) ==
  \E userId \in requesters, department \in departments,
     startDate \in startDates, endDate \in endDates,
     reason \in reasons, bodyTotalDays \in totalDaysIn,
     bodyApproverId \in approverIds :
    LET body == [department |-> department, startDate |-> startDate,
                 endDate |-> endDate, reason |-> reason,
                 totalDays |-> bodyTotalDays, approverId |-> bodyApproverId]
        data == ParseLeaveRequest(body)
        result == FileGuard(body)
    IN IF result # "ok"
       THEN /\ last' = [op |-> "file", id |-> 0, actor |-> userId,
                        remarks |-> Undefined, result |-> result, body |-> body]
            /\ UNCHANGED <<db, calls>>
       ELSE /\ Len(leaveRequests) < maxRequests
            /\ Len(approvalLogs) < maxLogs
            /\ LET totalDays == TotalDays(startDate, endDate)
                   isLwop == totalDays > FilingRemaining(userId)
                   id == Len(leaveRequests) + 1
                   values == LeaveRequestValues(data, userId, totalDays, isLwop)
               IN /\ leaveRequests' = createLeaveRequest(values.userId, values.department,
                                                         values.totalDays, values.isLwop,
                                                         values.approverId)
                  /\ approvalLogs' = createApprovalLog(
                       [leaveRequestId |-> id, actionBy |-> userId,
                        action |-> <<"Filed leave request">>,
                        previousStatus |-> Null, newStatus |-> "pending",
                        remarks |-> Null, ptoDeducted |-> Null, isLwop |-> isLwop])
                  /\ last' = [op |-> "file", id |-> id, actor |-> userId,
                              remarks |-> Undefined, result |-> "ok", body |-> body]
            /\ UNCHANGED <<ptoCredits, departmentApprovers, users, userRole, calls>>

\* variant: the remarks of an LWOP request are checked after the balance is
\* written
ApproveLeaveRequest_LateRemarksCheck(actors, ids, remarksIn, maxLogs) ==
  \E actor \in actors, id \in ids, remarks \in remarksIn :
    \E row \in IF id \in DOMAIN leaveRequests
               THEN getDepartmentApprover(leaveRequests[id].department) ELSE {None} :
      LET result == ApproveGuard(actor, id, remarks, row)
      IN /\ last' = [op |-> "approve", id |-> id, actor |-> actor,
                     remarks |-> remarks, result |-> result, body |-> None]
         /\ UNCHANGED calls
         /\ IF result \notin {"ok", "ValidationError"}
            THEN UNCHANGED db
            ELSE LET leaveRequest == leaveRequests[id]
                     userCredits == getPtoCredits(leaveRequest.userId)
                     ptoUsed == PtoUsed(userCredits, leaveRequest)
                     lwopUsed == LwopUsed(userCredits, leaveRequest)
                 IN /\ Len(approvalLogs) < maxLogs
                    /\ ptoCredits' =
                         IF userCredits = None THEN ptoCredits
                         ELSE updatePtoCredits(leaveRequest.userId,
                                               userCredits[1].usedCredits + ptoUsed,
                                               userCredits[1].lwopDays + lwopUsed)
                    /\ IF result = "ValidationError"
                       THEN UNCHANGED <<leaveRequests, approvalLogs>>
                       ELSE /\ leaveRequests' =
                                 updateLeaveRequestStatus(id, "approved", actor, remarks)
                            /\ approvalLogs' = createApprovalLog(
                                 ApprovalLogEntry(id, actor, leaveRequest, remarks,
                                                  ptoUsed, lwopUsed))
                    /\ UNCHANGED <<departmentApprovers, users, userRole>>

\* PATCH /api/leave-requests/:id/approve
ApproveLeaveRequest(actors, ids, remarksIn, maxLogs) ==
  \E actor \in actors, id \in ids, remarks \in remarksIn :
    \E row \in IF id \in DOMAIN leaveRequests
               THEN getDepartmentApprover(leaveRequests[id].department) ELSE {None} :
      LET result == ApproveGuard(actor, id, remarks, row)
      IN /\ last' = [op |-> "approve", id |-> id, actor |-> actor,
                     remarks |-> remarks, result |-> result, body |-> None]
         /\ UNCHANGED calls
         /\ IF result # "ok"
            THEN UNCHANGED db
            ELSE LET leaveRequest == leaveRequests[id]
                     userCredits == getPtoCredits(leaveRequest.userId)
                     ptoUsed == PtoUsed(userCredits, leaveRequest)
                     lwopUsed == LwopUsed(userCredits, leaveRequest)
                 IN /\ Len(approvalLogs) < maxLogs
                    /\ ptoCredits' =
                         IF userCredits = None THEN ptoCredits
                         ELSE updatePtoCredits(leaveRequest.userId,
                                               userCredits[1].usedCredits + ptoUsed,
                                               userCredits[1].lwopDays + lwopUsed)
                    /\ leaveRequests' = updateLeaveRequestStatus(id, "approved", actor, remarks)
                    /\ approvalLogs' = createApprovalLog(
                         ApprovalLogEntry(id, actor, leaveRequest, remarks, ptoUsed, lwopUsed))
                    /\ UNCHANGED <<departmentApprovers, users, userRole>>

\* PATCH /api/leave-requests/:id/reject
RejectLeaveRequest(actors, ids, remarksIn, maxLogs) ==
  \E actor \in actors, id \in ids, remarks \in remarksIn :
    \E row \in IF id \in DOMAIN leaveRequests
               THEN getDepartmentApprover(leaveRequests[id].department) ELSE {None} :
      LET result == RejectGuard(actor, id, row)
      IN /\ last' = [op |-> "reject", id |-> id, actor |-> actor,
                     remarks |-> remarks, result |-> result, body |-> None]
         /\ UNCHANGED calls
         /\ IF result # "ok"
            THEN UNCHANGED db
            ELSE /\ Len(approvalLogs) < maxLogs
                 /\ leaveRequests' = updateLeaveRequestStatus(id, "rejected", actor, remarks)
                 /\ approvalLogs' = createApprovalLog(
                      [leaveRequestId |-> id, actionBy |-> actor,
                       action |-> <<"Rejected leave request">>,
                       previousStatus |-> "pending", newStatus |-> "rejected",
                       remarks |-> IF remarks = Undefined THEN Null ELSE remarks,
                       ptoDeducted |-> Null, isLwop |-> FALSE])
                 /\ UNCHANGED <<ptoCredits, departmentApprovers, users, userRole>>

\* variant: requireRole("admin", "hr")
SetApproverGuard_HrToo(actor, approverUserId) ==
  IF userRole[actor] \notin {"admin", "hr"} THEN "Forbidden"
  ELSE IF approverUserId \notin Users THEN "NotFound"
  ELSE "ok"

\* requireRole("admin") and the checks of the handler below
SetApproverGuard(actor, approverUserId) ==
  IF userRole[actor] # "admin" THEN "Forbidden"
  ELSE IF approverUserId \notin Users THEN "NotFound"
  ELSE "ok"

\* PUT /api/admin/department-approvers/:department
SetDepartmentApprover(actors, departments, candidates) ==
  \E actor \in actors, department \in departments, approverUserId \in candidates :
    LET result == SetApproverGuard(actor, approverUserId)
    IN /\ last' = [op |-> "setApprover", id |-> 0, actor |-> actor,
                   remarks |-> Undefined, result |-> result,
                   body |-> [department |-> department,
                             approverUserId |-> approverUserId]]
       /\ departmentApprovers' =
            IF result = "ok" THEN setDepartmentApprover(department, approverUserId)
            ELSE departmentApprovers
       /\ UNCHANGED <<ptoCredits, leaveRequests, approvalLogs, calls, users, userRole>>

\* requireRole("admin"), then 404 when no row is updated
UpdateRoleGuard(actor, userId) ==
  IF userRole[actor] # "admin" THEN "Forbidden"
  ELSE IF userId \notin Users THEN "NotFound"
  ELSE "ok"

\* PATCH /api/admin/users/:id/role
UpdateUserRole(actors, userIds, roles) ==
  \E actor \in actors, userId \in userIds, role \in roles :
    LET result == UpdateRoleGuard(actor, userId)
    IN /\ last' = [op |-> "updateRole", id |-> 0, actor |-> actor,
                   remarks |-> Undefined, result |-> result,
                   body |-> [userId |-> userId, role |-> role]]
       /\ userRole' = IF result = "ok" THEN updateUserRole(userId, role) ELSE userRole
       /\ UNCHANGED <<ptoCredits, leaveRequests, approvalLogs, departmentApprovers,
                      calls, users>>

\* storage.addDepartmentApprover, called for a department and a user (the
\* route of the settings page that calls it is not among the source files)
AddDepartmentApprover(departments, candidates) ==
  \E department \in departments, approverUserId \in candidates :
    /\ last' = [op |-> "addApprover", id |-> 0, actor |-> Null,
                remarks |-> Undefined, result |-> "ok", body |-> None]
    /\ departmentApprovers' = addDepartmentApprover(department, approverUserId)
    /\ UNCHANGED <<ptoCredits, leaveRequests, approvalLogs, calls, users, userRole>>

\* GET /api/leave-requests/pending: the ids of the requests in the response
GetPendingRequests(userId) ==
  IF userRole[userId] \in {"hr", "admin"}
  THEN getPendingLeaveRequests(Undefined)
  ELSE LET assignedDepartments ==
             {a.department : a \in {b \in getAllDepartmentApprovers :
                                      b.approverUserId = userId}}
       IN UNION {getPendingLeaveRequests(dept) : dept \in assignedDepartments}

(* ------------------- the approve handler, await by await --------------- *)
\* number of approve calls between their guards and their response
InFlight == Cardinality({c \in Calls : calls[c].pc \notin {"idle", "failed"}})

\* lines 360-388: the handler reads the request and the approver row and
\* evaluates its guards; a failed guard responds at once
ApproveBegin(slots, actors, ids, remarksIn) ==
  \E c \in slots, actor \in actors, id \in ids, remarks \in remarksIn :
    \E row \in IF id \in DOMAIN leaveRequests
               THEN getDepartmentApprover(leaveRequests[id].department) ELSE {None} :
      LET result == ApproveGuard(actor, id, remarks, row)
      IN /\ calls[c] = Idle
         /\ Len(approvalLogs) + InFlight < MaxLogs
         /\ IF result # "ok"
            THEN /\ last' = [op |-> "approve", id |-> id, actor |-> actor,
                             remarks |-> remarks, result |-> result, body |-> None]
                 /\ UNCHANGED calls
            ELSE /\ calls' = [calls EXCEPT ![c] =
                                [pc |-> "guarded", actor |-> actor, id |-> id,
                                 remarks |-> remarks, leaveRequest |-> leaveRequests[id],
                                 userCredits |-> None]]
                 /\ UNCHANGED last
         /\ UNCHANGED db

\* line 390: await storage.getPtoCredits(leaveRequest.userId)
ApproveGetPtoCredits(slots) ==
  \E c \in slots :
    /\ calls[c].pc = "guarded"
    /\ calls' = [calls EXCEPT ![c].pc = "read",
                              ![c].userCredits = getPtoCredits(calls[c].leaveRequest.userId)]
    /\ UNCHANGED <<db, last>>

\* variant: the columns are incremented in the database (SET used = used + n)
ApproveUpdatePtoCredits_Increment(slots) ==
  \E c \in slots :
    LET call == calls[c]
        userId == call.leaveRequest.userId
    IN /\ call.pc = "read"
       /\ ptoCredits' =
            IF call.userCredits = None THEN ptoCredits
            ELSE updatePtoCredits(userId,
                   ptoCredits[userId].usedCredits
                     + PtoUsed(call.userCredits, call.leaveRequest),
                   ptoCredits[userId].lwopDays
                     + LwopUsed(call.userCredits, call.leaveRequest))
       /\ calls' = [calls EXCEPT ![c].pc = "credited"]
       /\ UNCHANGED <<leaveRequests, approvalLogs, departmentApprovers, users, userRole, last>>

\* lines 394-413: await storage.updatePtoCredits with the sums computed from
\* the balance read at line 390
ApproveUpdatePtoCredits(slots) ==
  \E c \in slots :
    LET call == calls[c]
    IN /\ call.pc = "read"
       /\ ptoCredits' =
            IF call.userCredits = None THEN ptoCredits
            ELSE updatePtoCredits(call.leaveRequest.userId,
                   call.userCredits[1].usedCredits
                     + PtoUsed(call.userCredits, call.leaveRequest),
                   call.userCredits[1].lwopDays
                     + LwopUsed(call.userCredits, call.leaveRequest))
       /\ calls' = [calls EXCEPT ![c].pc = "credited"]
       /\ UNCHANGED <<leaveRequests, approvalLogs, departmentApprovers, users, userRole, last>>

\* lines 415-420: await storage.updateLeaveRequestStatus
ApproveUpdateStatus(slots) ==
  \E c \in slots :
    LET call == calls[c]
    IN /\ call.pc = "credited"
       /\ leaveRequests' =
            updateLeaveRequestStatus(call.id, "approved", call.actor, call.remarks)
       /\ calls' = [calls EXCEPT ![c].pc = "approved"]
       /\ UNCHANGED <<ptoCredits, approvalLogs, departmentApprovers, users, userRole, last>>

\* lines 422-435: await storage.createApprovalLog, then the response
ApproveCreateLog(slots) ==
  \E c \in slots :
    LET call == calls[c]
    IN /\ call.pc = "approved"
       /\ approvalLogs' = createApprovalLog(
            ApprovalLogEntry(call.id, call.actor, call.leaveRequest, call.remarks,
                             PtoUsed(call.userCredits, call.leaveRequest),
                             LwopUsed(call.userCredits, call.leaveRequest)))
       /\ last' = [op |-> "approve", id |-> call.id, actor |-> call.actor,
                   remarks |-> call.remarks, result |-> "ok", body |-> None]
       /\ calls' = [calls EXCEPT ![c] = Idle]
       /\ UNCHANGED <<ptoCredits, leaveRequests, departmentApprovers, users, userRole>>

\* lines 436-439: an await rejects (the database is unreachable) or the
\* process stops; what was written stays written
ApproveFail(slots) ==
  \E c \in slots :
    LET call == calls[c]
    IN /\ call.pc \notin {"idle", "failed"}
       /\ last' = [op |-> "approve", id |-> call.id, actor |-> call.actor,
                   remarks |-> call.remarks, result |-> "InternalError",
                   body |-> None]
       /\ calls' = [calls EXCEPT ![c] = Failed]
       /\ UNCHANGED db

\* lines 442-468 of the reject handler: it reads the request and the approver
\* row and evaluates its guards; a failed guard responds at once
RejectBegin(slots, actors, ids, remarksIn) ==
  \E c \in slots, actor \in actors, id \in ids, remarks \in remarksIn :
    \E row \in IF id \in DOMAIN leaveRequests
               THEN getDepartmentApprover(leaveRequests[id].department) ELSE {None} :
      LET result == RejectGuard(actor, id, row)
      IN /\ calls[c] = Idle
         /\ Len(approvalLogs) + InFlight < MaxLogs
         /\ IF result # "ok"
            THEN /\ last' = [op |-> "reject", id |-> id, actor |-> actor,
                             remarks |-> remarks, result |-> result, body |-> None]
                 /\ UNCHANGED calls
            ELSE /\ calls' = [calls EXCEPT ![c] =
                                [pc |-> "rejecting", actor |-> actor, id |-> id,
                                 remarks |-> remarks, leaveRequest |-> leaveRequests[id],
                                 userCredits |-> None]]
                 /\ UNCHANGED last
         /\ UNCHANGED db

\* lines 470-475: await storage.updateLeaveRequestStatus
RejectUpdateStatus(slots) ==
  \E c \in slots :
    LET call == calls[c]
    IN /\ call.pc = "rejecting"
       /\ leaveRequests' =
            updateLeaveRequestStatus(call.id, "rejected", call.actor, call.remarks)
       /\ calls' = [calls EXCEPT ![c].pc = "rejected"]
       /\ UNCHANGED <<ptoCredits, approvalLogs, departmentApprovers, users, userRole, last>>

\* lines 477-486: await storage.createApprovalLog, then the response
RejectCreateLog(slots) ==
  \E c \in slots :
    LET call == calls[c]
    IN /\ call.pc = "rejected"
       /\ approvalLogs' = createApprovalLog(
            [leaveRequestId |-> call.id, actionBy |-> call.actor,
             action |-> <<"Rejected leave request">>,
             previousStatus |-> "pending", newStatus |-> "rejected",
             remarks |-> IF call.remarks = Undefined THEN Null ELSE call.remarks,
             ptoDeducted |-> Null, isLwop |-> FALSE])
       /\ last' = [op |-> "reject", id |-> call.id, actor |-> call.actor,
                   remarks |-> call.remarks, result |-> "ok", body |-> None]
       /\ calls' = [calls EXCEPT ![c] = Idle]
       /\ UNCHANGED <<ptoCredits, leaveRequests, departmentApprovers, users, userRole>>

(* --------------------------- specifications ---------------------------- *)
\* the ledger: "emp" files leaves that start on day 0 or 2 and end on any day
\* (before the start included), "hr" resolves
Next ==
  \/ FileLeaveRequest({"emp"}, {"sales"}, {0, 2 * Day}, Dates,
                      {MinReasonLength}, {1}, {Undefined}, MaxRequests, MaxLogs)
  \/ ApproveLeaveRequest({"hr"}, 1..MaxRequests, {Undefined, "ok"}, MaxLogs)
  \/ RejectLeaveRequest({"hr"}, 1..MaxRequests, {Undefined}, MaxLogs)

Spec == Init /\ [][Next]_vars

\* the authorization: one-day and (MaxDate+1)-day requests of two departments,
\* a manager, HR and the admin resolve, the admin (or, in vain, HR) names the
\* manager as approver of sales
NextAuth ==
  \/ FileLeaveRequest({"emp"}, Departments, {0}, {0, MaxDate * Day},
                      {MinReasonLength - 1, MinReasonLength}, {1}, {Undefined}, MaxAuthRequests, MaxLogs)
  \/ ApproveLeaveRequest({"mgr", "hr", "adm"}, 1..MaxAuthRequests, RemarksIn, MaxLogs)
  \/ RejectLeaveRequest({"mgr", "hr", "adm"}, 1..MaxAuthRequests, {Undefined, "ok"}, MaxLogs)
  \/ SetDepartmentApprover({"adm", "hr"}, {"sales"}, {"mgr"})

SpecAuth == Init /\ [][NextAuth]_vars

\* the ledger when every request's dates are in order (endDate >= startDate)
NextOrdered ==
  \/ FileLeaveRequest({"emp"}, {"sales"}, {0}, Dates,
                      {MinReasonLength}, {1}, {Undefined}, MaxRequests, MaxLogs)
  \/ ApproveLeaveRequest({"hr"}, 1..MaxRequests, {Undefined, "ok"}, MaxLogs)
  \/ RejectLeaveRequest({"hr"}, 1..MaxRequests, {Undefined}, MaxLogs)

SpecOrdered == Init /\ [][NextOrdered]_vars

\* the failure: one approve call at a time, await by await, that can stop after
\* any of its awaits
NextCrash ==
  \/ FileLeaveRequest({"emp"}, {"sales"}, {0}, Dates,
                      {MinReasonLength}, {1}, {Undefined}, MaxRequests, MaxLogs)
  \/ ApproveBegin({1}, {"hr"}, 1..MaxRequests, {Undefined, "ok"})
  \/ ApproveGetPtoCredits({1})
  \/ ApproveUpdatePtoCredits({1})
  \/ ApproveUpdateStatus({1})
  \/ ApproveCreateLog({1})
  \/ ApproveFail({1})

SpecCrash == Init /\ [][NextCrash]_vars

\* the race: approve calls of HR run concurrently, await by await, on the
\* two- and three-day requests of one employee
NextRace ==
  \/ FileLeaveRequest({"emp"}, {"sales"}, {0}, {Day, 2 * Day},
                      {MinReasonLength}, {1}, {Undefined}, MaxRequests, MaxLogs)
  \/ ApproveBegin(Calls, {"hr"}, 1..MaxRequests, {"ok"})
  \/ ApproveGetPtoCredits(Calls)
  \/ ApproveUpdatePtoCredits(Calls)
  \/ ApproveUpdateStatus(Calls)
  \/ ApproveCreateLog(Calls)

SpecRace == Init /\ [][NextRace]_vars

\* the resolution race: an approve call and a reject call of HR run
\* concurrently, await by await, each in its own slot
NextResolve ==
  \/ FileLeaveRequest({"emp"}, {"sales"}, {0}, {0, Day},
                      {MinReasonLength}, {1}, {Undefined}, MaxRequests, MaxLogs)
  \/ ApproveBegin({1}, {"hr"}, 1..MaxRequests, {"ok"})
  \/ ApproveGetPtoCredits({1})
  \/ ApproveUpdatePtoCredits({1})
  \/ ApproveUpdateStatus({1})
  \/ ApproveCreateLog({1})
  \/ RejectBegin({2}, {"hr"}, 1..MaxRequests, {"ok"})
  \/ RejectUpdateStatus({2})
  \/ RejectCreateLog({2})

SpecResolve == Init /\ [][NextResolve]_vars

\* several approvers per department: one-day requests of two departments; the
\* requester, two managers, top management and HR approve, three of them
\* reject; approver rows of sales are set and added for users of every role
\* but HR and admin
NextMulti ==
  \/ FileLeaveRequest({"emp"}, Departments, {0}, {0},
                      {MinReasonLength}, {1}, {Undefined}, MaxAuthRequests, MaxLogs)
  \/ ApproveLeaveRequest({"emp", "mgr", "mgr2", "top", "hr"}, 1..MaxAuthRequests,
                         {"ok"}, MaxLogs)
  \/ RejectLeaveRequest({"mgr", "top", "hr"}, 1..MaxAuthRequests, {"ok"}, MaxLogs)
  \/ SetDepartmentApprover({"adm"}, {"sales"}, {"mgr", "top", "emp"})
  \/ AddDepartmentApprover({"sales"}, {"mgr", "mgr2", "top"})

SpecMulti == Init /\ [][NextMulti]_vars

\* the dates: start and end are any midnight or noon of three days, the body
\* carries a totalDays of its own, HR approves
NextDates ==
  \/ FileLeaveRequest({"emp"}, {"sales"}, 0..(2 * Day), 0..(2 * Day),
                      {MinReasonLength}, {1, 3}, {Undefined}, MaxRequests, MaxLogs)
  \/ ApproveLeaveRequest({"hr"}, 1..MaxRequests, {"ok"}, MaxLogs)

SpecDates == Init /\ [][NextDates]_vars

\* the registration: users register with three emails and three employee
\* IDs while an employee files a five-day request and HR approves it
NextRegister ==
  \/ Register({"a", "b", "c"}, {"e1", "e2", "e3"})
  \/ FileLeaveRequest({"emp"}, {"sales"}, {0}, {4 * Day},
                      {MinReasonLength}, {1}, {Undefined}, MaxAuthRequests, MaxLogs)
  \/ ApproveLeaveRequest({"hr"}, 1..MaxAuthRequests, {"ok"}, MaxLogs)

SpecRegister == Init /\ [][NextRegister]_vars

\* the assignment: users of every role call the set-approver route for two
\* departments, naming either manager or a user that does not exist, while
\* the managers and HR resolve the one-day sales requests of an employee
NextAssign ==
  \/ FileLeaveRequest({"emp"}, {"sales"}, {0}, {0},
                      {MinReasonLength}, {1}, {Undefined, "mgr"}, MaxAuthRequests, MaxLogs)
  \/ ApproveLeaveRequest({"mgr", "mgr2", "hr"}, 1..MaxAuthRequests, {"ok"}, MaxLogs)
  \/ RejectLeaveRequest({"mgr", "mgr2"}, 1..MaxAuthRequests, {"ok"}, MaxLogs)
  \/ SetDepartmentApprover(Users, Departments, {"mgr", "mgr2", "ghost"})
  \/ UpdateUserRole({"adm", "emp"}, {"hr", "ghost"}, {"employee", "hr"})

SpecAssign == Init /\ [][NextAssign]_vars

\* the LWOP split: "emp" files three-day and (MaxDate+1)-day leaves, "hr"
\* approves them in any order
NextLwop ==
  \/ FileLeaveRequest({"emp"}, {"sales"}, {0}, {2 * Day, MaxDate * Day},
                      {MinReasonLength}, {1}, {Undefined}, MaxLwopRequests, MaxLwopLogs)
  \/ ApproveLeaveRequest({"hr"}, 1..MaxLwopRequests, {"ok"}, MaxLwopLogs)

SpecLwop == Init /\ [][NextLwop]_vars

\* the requester without a balance row: "top" files leaves of exactly the
\* default credits and of one day more, "hr" resolves them
NextNoBalance ==
  \/ FileLeaveRequest({"top"}, {"sales"}, {0},
                      {(DefaultTotalCredits - 1) * Day, DefaultTotalCredits * Day},
                      {MinReasonLength}, {1}, {Undefined}, MaxRequests, MaxLogs)
  \/ ApproveLeaveRequest({"hr"}, 1..MaxRequests, {Undefined, "ok"}, MaxLogs)
  \/ RejectLeaveRequest({"hr"}, 1..MaxRequests, {Undefined}, MaxLogs)

SpecNoBalance == Init /\ [][NextNoBalance]_vars

(* ------------------------- properties checked -------------------------- *)
\* the actor is HR or admin, or some approver row of the request's department names it
AuthorizedFor(actor, id) ==
  \/ userRole[actor] \in {"hr", "admin"}
  \/ \E a \in departmentApprovers :
       a.department = leaveRequests[id].department /\ a.approverUserId = actor

\* the step is a call of approve or reject on an existing request
CallOn(op, id) == last'.op = op /\ last'.id = id /\ id \in DOMAIN leaveRequests

\* the step is a successful approve
ApproveOk == last'.op = "approve" /\ last'.result = "ok"

LastLog == approvalLogs[Len(approvalLogs)]

\* C1: after any sequence of file, approve and reject, every balance has
\* 0 <= usedCredits <= totalCredits and lwopDays >= 0.
C1_BalanceInvariant ==
  \A u \in DOMAIN ptoCredits :
    /\ 0 <= ptoCredits[u].usedCredits
    /\ ptoCredits[u].usedCredits <= ptoCredits[u].totalCredits
    /\ ptoCredits[u].lwopDays >= 0

\* C2: approve or reject by an actor who is neither HR/admin nor a designated
\* approver of the request's department fails with Forbidden and leaves the
\* requests, the balances and the audit log unchanged.
C2_UnauthorizedForbidden ==
  [][\A id \in DOMAIN leaveRequests :
       ((CallOn("approve", id) \/ CallOn("reject", id))
          /\ ~AuthorizedFor(last'.actor, id))
       => /\ last'.result = "Forbidden"
          /\ leaveRequests' = leaveRequests
          /\ ptoCredits' = ptoCredits
          /\ approvalLogs' = approvalLogs]_vars

\* a manager who is the approver of another department was refused on approve
C2_Witness ==
  /\ last.op = "approve" /\ last.result = "Forbidden"
  /\ last.id \in DOMAIN leaveRequests
  /\ userRole[last.actor] = "manager"
  /\ leaveRequests[last.id].status = "pending"
  /\ \E a \in departmentApprovers :
       a.approverUserId = last.actor /\ a.department # leaveRequests[last.id].department

\* C3 as stated: approve on a non-pending request fails with InvalidState for
\* every actor, authorized or not, and changes nothing.
C3_Original ==
  [][\A id \in DOMAIN leaveRequests :
       (CallOn("approve", id) /\ leaveRequests[id].status # "pending")
       => (last'.result = "InvalidState" /\ UNCHANGED db)]_vars

\* C3 amended: approve on a non-pending request changes nothing and fails with
\* InvalidState for an authorized actor, with Forbidden for any other actor.
C3_Amended ==
  [][\A id \in DOMAIN leaveRequests :
       (CallOn("approve", id) /\ leaveRequests[id].status # "pending")
       => /\ last'.result = IF AuthorizedFor(last'.actor, id)
                            THEN "InvalidState" ELSE "Forbidden"
          /\ UNCHANGED db]_vars

\* an authorized actor's approve on a rejected request failed with InvalidState
C3_Witness ==
  /\ last.op = "approve" /\ last.result = "InvalidState"
  /\ last.id \in DOMAIN leaveRequests
  /\ leaveRequests[last.id].status = "rejected"
  /\ AuthorizedFor(last.actor, last.id)

\* C4: an approve that follows a successful approve of the same request, by an
\* authorized actor, fails with InvalidState and leaves the balances (and the
\* request) as the first call left them.
C4_ApproveTwice ==
  [][(/\ last.op = "approve" /\ last.result = "ok"
      /\ CallOn("approve", last.id)
      /\ AuthorizedFor(last'.actor, last.id))
     => /\ last'.result = "InvalidState"
        /\ ptoCredits' = ptoCredits
        /\ leaveRequests' = leaveRequests]_vars

\* a second approve failed right after the approval (the approval's audit row
\* is still the newest) and the balance holds that one deduction
C4_Witness ==
  /\ last.op = "approve" /\ last.result = "InvalidState"
  /\ last.id \in DOMAIN leaveRequests
  /\ leaveRequests[last.id].status = "approved"
  /\ LastLog.leaveRequestId = last.id /\ LastLog.newStatus = "approved"
  /\ LastLog.ptoDeducted > 0
  /\ ptoCredits[leaveRequests[last.id].userId].usedCredits = LastLog.ptoDeducted

\* the status, approver and approver remarks of a resolved request stay
Terminal(id) ==
  /\ leaveRequests'[id].status = leaveRequests[id].status
  /\ leaveRequests'[id].approverId = leaveRequests[id].approverId
  /\ leaveRequests'[id].approverRemarks = leaveRequests[id].approverRemarks

\* C5 as stated: once a request is approved or rejected, every later approve or
\* reject on it fails with InvalidState and its status, approverId and
\* approverRemarks never change.
C5_Original ==
  [][\A id \in DOMAIN leaveRequests :
       leaveRequests[id].status \in {"approved", "rejected"}
       => /\ Terminal(id)
          /\ (CallOn("approve", id) \/ CallOn("reject", id))
             => last'.result = "InvalidState"]_vars

\* C5 amended: once a request is approved or rejected, its status, approverId
\* and approverRemarks never change, and every later approve or reject on it
\* fails: with InvalidState for an authorized actor, with Forbidden otherwise.
C5_Amended ==
  [][\A id \in DOMAIN leaveRequests :
       leaveRequests[id].status \in {"approved", "rejected"}
       => /\ Terminal(id)
          /\ (CallOn("approve", id) \/ CallOn("reject", id))
             => last'.result = IF AuthorizedFor(last'.actor, id)
                               THEN "InvalidState" ELSE "Forbidden"]_vars

\* a reject on an approved request failed and the request still names the
\* approver who approved it
C5_Witness ==
  /\ last.op = "reject" /\ last.result = "InvalidState"
  /\ last.id \in DOMAIN leaveRequests
  /\ leaveRequests[last.id].status = "approved"
  /\ leaveRequests[last.id].approverId # last.actor
  /\ leaveRequests[last.id].approverId # Null

\* C6: for a pending request flagged LWOP and an authorized actor, approve
\* without remarks (absent or empty) fails with ValidationError and changes
\* nothing, and approve with non-empty remarks succeeds.
C6_LwopRemarks ==
  [][\A id \in DOMAIN leaveRequests :
       (/\ CallOn("approve", id)
        /\ leaveRequests[id].status = "pending" /\ leaveRequests[id].isLwop
        /\ AuthorizedFor(last'.actor, id))
       => IF last'.remarks \in {Undefined, ""}
          THEN last'.result = "ValidationError" /\ UNCHANGED db
          ELSE last'.result = "ok" /\ leaveRequests'[id].status = "approved"]_vars

\* an authorized approve with empty remarks was refused on a flagged request
C6_Witness ==
  /\ last.op = "approve" /\ last.result = "ValidationError" /\ last.remarks = ""
  /\ last.id \in DOMAIN leaveRequests
  /\ leaveRequests[last.id].status = "pending" /\ leaveRequests[last.id].isLwop
  /\ AuthorizedFor(last.actor, last.id)

\* C7: filing sets isLwop exactly when totalDays exceeds the requester's
\* totalCredits - usedCredits at filing time.
C7_FilingFlag ==
  [][(last'.op = "file" /\ last'.result = "ok")
     => LET r == leaveRequests'[last'.id]
        IN /\ Len(leaveRequests') = Len(leaveRequests) + 1
           /\ last'.id = Len(leaveRequests')
           /\ r.userId \in DOMAIN ptoCredits
              => r.isLwop = (r.totalDays > ptoCredits[r.userId].totalCredits
                                           - ptoCredits[r.userId].usedCredits)]_vars

\* a request was filed and flagged although it fits the allotment: part of the
\* credits was used before
C7_Witness ==
  /\ last.op = "file"
  /\ leaveRequests[last.id].isLwop
  /\ leaveRequests[last.id].totalDays <= DefaultTotalCredits
  /\ ptoCredits[leaveRequests[last.id].userId].usedCredits > 0

\* the days an approve step adds to the requester's usedCredits and lwopDays
PtoPortion(u) == ptoCredits'[u].usedCredits - ptoCredits[u].usedCredits
LwopPortion(u) == ptoCredits'[u].lwopDays - ptoCredits[u].lwopDays

C9_UnflaggedApproval ==
  [][\A id \in DOMAIN leaveRequests :
       (/\ CallOn("approve", id)
        /\ leaveRequests[id].status = "pending" /\ ~leaveRequests[id].isLwop
        /\ AuthorizedFor(last'.actor, id))
       => /\ last'.result = "ok"
          /\ leaveRequests'[id].status = "approved"
          /\ LET u == leaveRequests[id].userId
             IN u \in DOMAIN ptoCredits
                => /\ PtoPortion(u) = leaveRequests[id].totalDays
                   /\ LwopPortion(u) = 0]_vars

\* an unflagged request was approved without remarks although it no longer
\* fitted the remaining credits
C9_Witness ==
  /\ last.op = "approve" /\ last.result = "ok" /\ last.remarks = Undefined
  /\ ~leaveRequests[last.id].isLwop
  /\ leaveRequests[last.id].totalDays > 0
  /\ LET c == ptoCredits[leaveRequests[last.id].userId]
     IN c.usedCredits > c.totalCredits /\ c.lwopDays = 0

\* C10: a successful approval appends one audit row with previousStatus
\* pending, newStatus approved, the request's LWOP flag and ptoDeducted equal
\* to the days added to usedCredits.
C10_AuditEntry ==
  [][ApproveOk
     => LET req == leaveRequests[last'.id]
            u == req.userId
            e == approvalLogs'[Len(approvalLogs')]
        IN /\ approvalLogs' = Append(approvalLogs, e)
           /\ e.leaveRequestId = last'.id /\ e.actionBy = last'.actor
           /\ e.previousStatus = "pending" /\ e.newStatus = "approved"
           /\ e.isLwop = req.isLwop
           /\ e.ptoDeducted = IF u \in DOMAIN ptoCredits THEN PtoPortion(u) ELSE 0]_vars

\* the scenario: remaining 2, a flagged 5-day request approved with remarks:
\* usedCredits 5, lwopDays 3, ptoDeducted 2
C10_Witness ==
  /\ last.op = "approve" /\ last.result = "ok" /\ last.remarks = "ok"
  /\ leaveRequests[last.id].totalDays = 5 /\ leaveRequests[last.id].isLwop
  /\ ptoCredits[leaveRequests[last.id].userId].usedCredits = 5
  /\ ptoCredits[leaveRequests[last.id].userId].lwopDays = 3
  /\ LastLog.ptoDeducted = 2 /\ LastLog.isLwop /\ LastLog.newStatus = "approved"

\* C11: a file, approve or reject call that fails a guard (NotFound, Forbidden,
\* InvalidState, ValidationError) leaves the requests, the balances, the
\* approver assignments and the audit log exactly as they were
C11_FailedCallNoWrite ==
  [][(/\ last'.op \in {"file", "approve", "reject"}
      /\ last'.result \in {"NotFound", "Forbidden", "InvalidState", "ValidationError"})
     => UNCHANGED db]_vars

\* an approve of a pending LWOP request has just failed for its missing remarks
C11_Witness ==
  /\ last.op = "approve" /\ last.result = "ValidationError"
  /\ last.id \in DOMAIN leaveRequests
  /\ leaveRequests[last.id].status = "pending"
  /\ leaveRequests[last.id].isLwop
  /\ ptoCredits[leaveRequests[last.id].userId].usedCredits = 0
  /\ Len(approvalLogs) = 1

\* C12: a balance changes only in a successful approve, which changes only
\* usedCredits and lwopDays of the requester's own balance; no call changes a
\* totalCredits, adds or removes a balance, or touches another user's balance
C12_BalanceFrame ==
  [][/\ DOMAIN ptoCredits' = DOMAIN ptoCredits
     /\ \A u \in DOMAIN ptoCredits :
          /\ ptoCredits'[u].totalCredits = ptoCredits[u].totalCredits
          /\ ptoCredits'[u] # ptoCredits[u] =>
               /\ last'.op = "approve" /\ last'.result = "ok"
               /\ u = leaveRequests[last'.id].userId]_vars

\* an approve has just charged both columns of the requester's balance, and
\* every other balance is as registration left it
C12_Witness ==
  /\ last.op = "approve" /\ last.result = "ok"
  /\ ptoCredits[leaveRequests[last.id].userId].usedCredits > 0
  /\ ptoCredits[leaveRequests[last.id].userId].lwopDays > 0
  /\ \A u \in DOMAIN ptoCredits \ {leaveRequests[last.id].userId} :
       ptoCredits[u] = [totalCredits |-> DefaultTotalCredits,
                        usedCredits |-> 0, lwopDays |-> 0]

\* days of the approved requests i..Len(leaveRequests) of user u
RECURSIVE ApprovedDaysFrom(_, _)
ApprovedDaysFrom(u, i) ==
  IF i > Len(leaveRequests) THEN 0
  ELSE (IF leaveRequests[i].userId = u /\ leaveRequests[i].status = "approved"
        THEN leaveRequests[i].totalDays ELSE 0) + ApprovedDaysFrom(u, i + 1)

\* C13: whenever no approve call is running (each has responded or stopped),
\* the days charged to a balance are the days of the user's approved requests:
\* no request is approved without its deduction, no deduction is applied for a
\* request that is still pending
C13_ApproveAtomic ==
  InFlight = 0 =>
    \A u \in DOMAIN ptoCredits :
      ptoCredits[u].usedCredits + ptoCredits[u].lwopDays = ApprovedDaysFrom(u, 1)

\* C14: concurrent approvals are not serialised on the balance: each call
\* writes the balance it read plus its own deduction, whatever was written in
\* between, and every call that passed its guards responds ok (none fails with
\* Conflict)
C14_LostUpdate ==
  [][\A c \in Calls :
       /\ (calls[c].pc = "read" /\ calls'[c].pc = "credited"
           /\ calls[c].userCredits # None) =>
            LET call == calls[c]
                balance == ptoCredits'[call.leaveRequest.userId]
            IN /\ balance.usedCredits =
                    call.userCredits[1].usedCredits
                      + PtoUsed(call.userCredits, call.leaveRequest)
               /\ balance.lwopDays =
                    call.userCredits[1].lwopDays
                      + LwopUsed(call.userCredits, call.leaveRequest)
       /\ (calls[c].pc = "approved" /\ calls'[c] = Idle) =>
            /\ last'.op = "approve" /\ last'.id = calls[c].id
            /\ last'.result = "ok"]_vars

\* two requests of one employee are approved, both calls have responded ok
\* (each left its audit row), and the balance holds the days of one of them
C14_Witness ==
  /\ InFlight = 0
  /\ Len(leaveRequests) = 2
  /\ \A i \in 1..2 : /\ leaveRequests[i].status = "approved"
                      /\ leaveRequests[i].userId = "emp"
                      /\ leaveRequests[i].totalDays > 0
                      /\ \E k \in DOMAIN approvalLogs :
                           /\ approvalLogs[k].leaveRequestId = i
                           /\ approvalLogs[k].newStatus = "approved"
  /\ ptoCredits["emp"].usedCredits + ptoCredits["emp"].lwopDays
       \in {leaveRequests[1].totalDays, leaveRequests[2].totalDays}

\* C15: approve or reject of a pending request by a user that any approver
\* row of the request's department names is not refused as Forbidden,
\* however many rows the department has
C15_EveryListedApprover ==
  [][\A id \in DOMAIN leaveRequests :
       ((CallOn("approve", id) \/ CallOn("reject", id))
          /\ leaveRequests[id].status = "pending"
          /\ \E a \in departmentApprovers :
               /\ a.department = leaveRequests[id].department
               /\ a.approverUserId = last'.actor)
       => last'.result # "Forbidden"]_vars

\* the approver rows of the request's department
RowsFor(id) ==
  {a \in departmentApprovers : a.department = leaveRequests[id].department}

C17_QueueMirrorsAuthorization ==
  [][/\ \A id \in DOMAIN leaveRequests :
          ((CallOn("approve", id) \/ CallOn("reject", id))
             /\ leaveRequests[id].status = "pending")
          => (id \in GetPendingRequests(last'.actor) <=> last'.result # "Forbidden")
     /\ \A userId \in Users :
          /\ \A id \in GetPendingRequests(userId) : leaveRequests[id].status = "pending"
          /\ userRole[userId] \in {"hr", "admin"} =>
               GetPendingRequests(userId) = getPendingLeaveRequests(Undefined)]_vars

\* C18: a file call whose endDate is earlier than its startDate fails with
\* ValidationError and adds no request and no audit entry, and every stored
\* request has totalDays >= 1
C18_ReversedDatesRejected ==
  [][/\ (last'.op = "file" /\ last'.body.endDate < last'.body.startDate)
          => /\ last'.result = "ValidationError"
             /\ leaveRequests' = leaveRequests
             /\ approvalLogs' = approvalLogs
     /\ \A id \in DOMAIN leaveRequests' : leaveRequests'[id].totalDays >= 1]_vars

\* the calendar day of an instant
DayOf(t) == t \div Day

\* the inclusive count of the calendar days from startDate to endDate
CalendarDays(startDate, endDate) == DayOf(endDate) - DayOf(startDate) + 1

\* C19 as stated: the totalDays stored by a file call is the inclusive
\* calendar-day count of its dates, whatever totalDays the body carries
C19_Original ==
  [][(last'.op = "file" /\ last'.result = "ok") =>
       leaveRequests'[last'.id].totalDays =
         CalendarDays(last'.body.startDate, last'.body.endDate)]_vars

\* C19 amended: the totalDays stored by a file call is the time from startDate
\* to endDate in days rounded up, plus 1, whatever totalDays the body carries:
\* the inclusive calendar-day count when the time of day of endDate is not
\* later than that of startDate, and one more when it is later
C19_Amended ==
  [][(last'.op = "file" /\ last'.result = "ok") =>
       leaveRequests'[last'.id].totalDays =
         CalendarDays(last'.body.startDate, last'.body.endDate)
           + (IF last'.body.endDate % Day > last'.body.startDate % Day
              THEN 1 ELSE 0)]_vars

\* a request filed from midnight to noon of the next day with a totalDays of 1
\* in the body is stored with three days
C19_Witness ==
  /\ last.op = "file" /\ last.result = "ok"
  /\ last.body.startDate % Day = 0
  /\ last.body.endDate = last.body.startDate + Day + 1
  /\ last.body.totalDays = 1
  /\ leaveRequests[last.id].totalDays = 3

\* the positions of the audit rows of request id in log
EntriesOf(log, id) == {k \in DOMAIN log : log[k].leaveRequestId = id}

\* C20: a successful file, approve or reject appends exactly one audit row
\* (for its request) and leaves the earlier rows as they were, any other call
\* leaves the log unchanged; a pending request has exactly one row, with
\* newStatus pending, and a resolved request exactly two
C20_AuditAppendOnly ==
  [][/\ IF last'.op \in {"file", "approve", "reject"} /\ last'.result = "ok"
        THEN /\ Len(approvalLogs') = Len(approvalLogs) + 1
             /\ SubSeq(approvalLogs', 1, Len(approvalLogs)) = approvalLogs
             /\ approvalLogs'[Len(approvalLogs')].leaveRequestId = last'.id
        ELSE approvalLogs' = approvalLogs
     /\ \A id \in DOMAIN leaveRequests' :
          IF leaveRequests'[id].status = "pending"
          THEN /\ Cardinality(EntriesOf(approvalLogs', id)) = 1
               /\ \A k \in EntriesOf(approvalLogs', id) :
                    approvalLogs'[k].newStatus = "pending"
          ELSE Cardinality(EntriesOf(approvalLogs', id)) = 2]_vars

\* a reject has just added the second row of its request while the other
\* request is pending with its single row
C20_Witness ==
  /\ last.op = "reject" /\ last.result = "ok"
  /\ Len(leaveRequests) = 2
  /\ Cardinality(EntriesOf(approvalLogs, last.id)) = 2
  /\ approvalLogs[Len(approvalLogs)].newStatus = "rejected"
  /\ \E id \in DOMAIN leaveRequests :
       /\ leaveRequests[id].status = "pending"
       /\ Cardinality(EntriesOf(approvalLogs, id)) = 1
  /\ Len(approvalLogs) = 3

\* C21: a registration whose email or employee ID is in use fails and adds
\* neither a user nor a balance; a successful one adds one user and that
\* user's balance of 5 total, 0 used, 0 LWOP, and touches no other balance;
\* every registered user has a balance
C21_RegistrationBalance ==
  [][/\ last'.op = "register" =>
          IF \E i \in DOMAIN users :
               \/ users[i].email = last'.body.email
               \/ users[i].employeeId = last'.body.employeeId
          THEN /\ last'.result # "ok"
               /\ users' = users /\ ptoCredits' = ptoCredits
          ELSE /\ last'.result = "ok"
               /\ Len(users') = Len(users) + 1
               /\ DOMAIN ptoCredits' = DOMAIN ptoCredits \cup {last'.actor}
               /\ last'.actor \notin DOMAIN ptoCredits
               /\ ptoCredits'[last'.actor] =
                    [totalCredits |-> 5, usedCredits |-> 0, lwopDays |-> 0]
               /\ \A u \in DOMAIN ptoCredits : ptoCredits'[u] = ptoCredits[u]
     /\ \A i \in DOMAIN users' : users'[i].id \in DOMAIN ptoCredits'
     /\ \A i, j \in DOMAIN users' :
          (users'[i].email = users'[j].email
             \/ users'[i].employeeId = users'[j].employeeId) => i = j]_vars

\* a registration that reused the employee ID of a registered user has just
\* failed, with one user and that user's balance in place
C21_Witness ==
  /\ last.op = "register" /\ last.result = "EmployeeIdTaken"
  /\ Len(users) = 1
  /\ users[1].employeeId = last.body.employeeId
  /\ users[1].email # last.body.email
  /\ ptoCredits[users[1].id] =
       [totalCredits |-> 5, usedCredits |-> 0, lwopDays |-> 0]

C23_NoCancelled ==
  [][/\ \A id \in DOMAIN leaveRequests' :
          leaveRequests'[id].status \in {"pending", "approved", "rejected"}
     /\ \A id \in DOMAIN leaveRequests' \ DOMAIN leaveRequests :
          leaveRequests'[id].status = "pending"
     /\ \A id \in DOMAIN leaveRequests :
          leaveRequests'[id].status # leaveRequests[id].status =>
            /\ leaveRequests[id].status = "pending"
            /\ leaveRequests'[id].status \in {"approved", "rejected"}]_vars

\* one request is approved and the other rejected, and a reject of the
\* approved one has just been refused
C23_Witness ==
  /\ Len(leaveRequests) = 2
  /\ {leaveRequests[1].status, leaveRequests[2].status} = {"approved", "rejected"}
  /\ last.op = "reject" /\ last.result = "InvalidState"
  /\ leaveRequests[last.id].status = "approved"

\* C24: a request's approverId is null exactly while the request is pending,
\* whatever approver the filing body named, and a successful approve or reject
\* sets it to the actor of that call, after which it stays
C24_ApproverIdTracksResolver ==
  [][/\ \A id \in DOMAIN leaveRequests' :
          leaveRequests'[id].status = "pending" <=> leaveRequests'[id].approverId = Null
     /\ \A id \in DOMAIN leaveRequests :
          /\ ((CallOn("approve", id) \/ CallOn("reject", id)) /\ last'.result = "ok") =>
               /\ leaveRequests'[id].status \in {"approved", "rejected"}
               /\ leaveRequests'[id].approverId = last'.actor
          /\ leaveRequests[id].status # "pending" =>
               leaveRequests'[id].approverId = leaveRequests[id].approverId]_vars

\* a request has just been filed with a body naming an approver, and the
\* stored request is pending with no approver
C24_Witness ==
  /\ last.op = "file" /\ last.result = "ok"
  /\ last.body.approverId = "mgr"
  /\ leaveRequests[last.id].status = "pending"
  /\ leaveRequests[last.id].approverId = Null

\* C25: under any interleaving of an approve and a reject of one pending
\* request at most one takes effect: a status that is no longer pending is
\* never written again, and a balance is charged only for a request that is
\* still pending
C25_OneResolutionWins ==
  [][/\ \A id \in DOMAIN leaveRequests :
          leaveRequests[id].status # "pending" =>
            /\ leaveRequests'[id].status = leaveRequests[id].status
            /\ leaveRequests'[id].approverId = leaveRequests[id].approverId
     /\ ptoCredits' # ptoCredits =>
          \E c \in Calls : /\ calls[c].pc = "read" /\ calls'[c].pc = "credited"
                           /\ leaveRequests[calls[c].id].status = "pending"]_vars

\* C26: in every successful approval of an LWOP-flagged request the PTO
\* portion and the LWOP portion are both between 0 and totalDays and sum to
\* totalDays, the audit row's ptoDeducted is not negative, and the remaining
\* credits the split starts from are not negative
C26_LwopSplitInRange ==
  [][\A id \in DOMAIN leaveRequests :
       (CallOn("approve", id) /\ last'.result = "ok" /\ leaveRequests[id].isLwop) =>
         LET req == leaveRequests[id]
             u == req.userId
         IN u \in DOMAIN ptoCredits =>
              /\ PtoPortion(u) \in 0..req.totalDays
              /\ LwopPortion(u) \in 0..req.totalDays
              /\ PtoPortion(u) + LwopPortion(u) = req.totalDays
              /\ approvalLogs'[Len(approvalLogs')].ptoDeducted >= 0
              /\ ptoCredits[u].totalCredits - ptoCredits[u].usedCredits >= 0]_vars

\* C27: when calls run one at a time, in every reachable state and for every
\* user with a balance, usedCredits + lwopDays is the sum of totalDays over
\* the user's approved requests
C27_Conservation ==
  \A u \in DOMAIN ptoCredits :
    ptoCredits[u].usedCredits + ptoCredits[u].lwopDays = ApprovedDaysFrom(u, 1)

\* two requests of one user are approved, the second split between PTO and
\* LWOP, and the balance carries days of both kinds
C27_Witness ==
  /\ Len(leaveRequests) = 2
  /\ \A id \in 1..2 : leaveRequests[id].status = "approved"
  /\ \E id \in 1..2 : leaveRequests[id].isLwop
  /\ ptoCredits["emp"].usedCredits > 0
  /\ ptoCredits["emp"].lwopDays > 0

\* C28: no file, approve or reject ever decreases the usedCredits or the
\* lwopDays of a balance
C28_BalancesMonotonic ==
  [][\A u \in DOMAIN ptoCredits :
       /\ ptoCredits'[u].usedCredits >= ptoCredits[u].usedCredits
       /\ ptoCredits'[u].lwopDays >= ptoCredits[u].lwopDays]_vars

\* C29: an approve or reject is refused with Forbidden exactly when, at the
\* moment of the call, the actor's role is neither hr nor admin and no approver
\* row of the request's department names the actor; and a successful
\* set-approver call leaves the named user as the only approver of the
\* department, so that the user it replaces is refused from then on, also on
\* requests filed before
C29_CurrentAssignmentsDecide ==
  [][/\ \A id \in DOMAIN leaveRequests :
          (CallOn("approve", id) \/ CallOn("reject", id)) =>
            (last'.result = "Forbidden" <=> ~AuthorizedFor(last'.actor, id))
     /\ (last'.op = "setApprover" /\ last'.result = "ok") =>
          {a.approverUserId : a \in {b \in departmentApprovers' :
                                       b.department = last'.body.department}}
            = {last'.body.approverUserId}]_vars

\* the manager who is no longer the approver of the department is refused
\* on a pending request of it, whose approver is now the other manager
C29_Witness ==
  /\ last.op \in {"approve", "reject"} /\ last.result = "Forbidden"
  /\ last.actor = "mgr"
  /\ leaveRequests[last.id].status = "pending"
  /\ departmentApprovers =
       {[department |-> leaveRequests[last.id].department, approverUserId |-> "mgr2"]}

\* C30: for a requester with no balance row, filing flags the request LWOP
\* exactly when totalDays > 5, and an authorized approve of the pending request
\* (with remarks when it is flagged) succeeds: the request becomes approved, no
\* balance is created or changed, and the audit row records ptoDeducted = 0
C30_NoBalanceRecord ==
  [][/\ (last'.op = "file" /\ last'.result = "ok"
         /\ last'.actor \notin DOMAIN ptoCredits) =>
          leaveRequests'[last'.id].isLwop
            = (leaveRequests'[last'.id].totalDays > DefaultTotalCredits)
     /\ \A id \in DOMAIN leaveRequests :
          (/\ CallOn("approve", id)
           /\ leaveRequests[id].userId \notin DOMAIN ptoCredits
           /\ AuthorizedFor(last'.actor, id)
           /\ leaveRequests[id].status = "pending"
           /\ (leaveRequests[id].isLwop => last'.remarks = "ok")) =>
            /\ last'.result = "ok"
            /\ leaveRequests'[id].status = "approved"
            /\ ptoCredits' = ptoCredits
            /\ approvalLogs'[Len(approvalLogs')].leaveRequestId = id
            /\ approvalLogs'[Len(approvalLogs')].ptoDeducted = 0]_vars

\* a six-day request of the user without balance row, flagged LWOP, has just
\* been approved with nothing deducted, and the user still has no balance row
C30_Witness ==
  /\ last.op = "approve" /\ last.result = "ok"
  /\ leaveRequests[last.id].userId = "top"
  /\ "top" \notin DOMAIN ptoCredits
  /\ leaveRequests[last.id].isLwop
  /\ leaveRequests[last.id].totalDays = DefaultTotalCredits + 1
  /\ leaveRequests[last.id].status = "approved"
  /\ approvalLogs[Len(approvalLogs)].ptoDeducted = 0

====
